---- MODULE Spec2Model ----
(***************************************************************************)
(* Food-donation dashboard: the SQLite store with its four tables, the     *)
(* Bulk Loader (data_import.py), the standalone check (data_check.py) and  *)
(* the Streamlit pages of app.py (Browse & Filter, CRUD, report 7) as      *)
(* state machines over the store.                                          *)
(*                                                                         *)
(* A table is a function from the primary keys present (the rowids of an   *)
(* INTEGER PRIMARY KEY table) to the row's other columns.  The columns     *)
(* kept are the ones some statement of the program reads or writes by      *)
(* name; Type, Address, Provider_Type, Meal_Type and Timestamp behave as   *)
(* the other TEXT columns do and are left out.                             *)
(*                                                                         *)
(* The text of an Expiry_Date is a record [fmt, day]: fmt is the way the   *)
(* day is written ("iso" for YYYY-MM-DD, "us" for M/D/YYYY, "bad" for text *)
(* that names no day) and day the calendar day written.                    *)
(***************************************************************************)
EXTENDS Integers, Sequences, FiniteSets, TLC

VARIABLES
    db,        \* the store: table name -> (primary key -> row)
    today,     \* the current calendar day (a day number)
    pc,        \* position of the Bulk Loader's __main__
    files,     \* the four input files as read so far by import_csv_to_table
    ran,       \* the stages of the Bulk Loader run so far, in order
    qc,        \* what data_quality_check printed
    filters,   \* Browse & Filter: the values selected in the three multiselects
    results,   \* Browse & Filter: the rows of the last query
    current,   \* CRUD: the rows of the last Read
    ret,       \* what the last run_execute returned
    op,        \* the last operation of the app and its inputs
    created,   \* the last row a Create inserted
    report,    \* the rows of the last report 7
    nops       \* number of app operations so far

vars == <<db, today, pc, files, ran, qc, filters, results, current, ret, op, created, report, nops>>

-----------------------------------------------------------------------------
(* Bounds of the model *)

MaxId == 2         \* primary keys range over 1..MaxId
MaxOps == 2        \* app operations per behaviour

(* Program constants *)

ReadLimit == 500   \* LIMIT of the CRUD Read
NearDays == 3      \* '+3 day' of report 7
ClampTo == 1       \* SET Quantity = 1

(* SQL NULL (pandas NaN / Python None); keys and days are >= 1 *)
NULL == 0
None == NULL

Tables == <<"providers", "receivers", "food_listings", "claims">>
TableSet == {Tables[i] : i \in 1..4}

EmptyTable == [k \in {} |-> NULL]

Keys(t) == DOMAIN t

Restrict(t, S) == [k \in S |-> t[k]]

EmptyDb ==
    [providers |-> EmptyTable, receivers |-> EmptyTable,
     food_listings |-> EmptyTable, claims |-> EmptyTable]

-----------------------------------------------------------------------------
(* Dates *)

Iso(d) == [fmt |-> "iso", day |-> d]
Us(d) == [fmt |-> "us", day |-> d]
BadDate == [fmt |-> "bad", day |-> NULL]

\* SQLite date(text): the day for YYYY-MM-DD text, NULL for any other text
sqlDate(x) == IF x.fmt = "iso" THEN x.day ELSE NULL

\* the calendar day an Expiry_Date text denotes, NULL when it denotes none
DayOf(x) == IF x.fmt \in {"iso", "us"} THEN x.day ELSE NULL

\* strftime('%Y-%m-%d') of the current day
strftime(d) == Iso(d)

-----------------------------------------------------------------------------
(* Bulk Loader: data_import.py *)

\* the DELETE with <= in place of <
DeleteExpiredInclusive(fl, d) ==
    Restrict(fl, {k \in Keys(fl) :
        ~ (sqlDate(fl[k].Expiry_Date) # NULL
           /\ sqlDate(fl[k].Expiry_Date) <= sqlDate(strftime(d)))})

\* DELETE FROM food_listings WHERE date(Expiry_Date) < date('{today}')
\* (a NULL date compares as NULL and the row stays)
DeleteExpired(fl, d) ==
    Restrict(fl, {k \in Keys(fl) :
        ~ (sqlDate(fl[k].Expiry_Date) # NULL
           /\ sqlDate(fl[k].Expiry_Date) < sqlDate(strftime(d)))})

\* UPDATE food_listings SET Quantity = 1 WHERE Quantity < 0
FixQuantities(fl) ==
    [k \in Keys(fl) |->
        IF fl[k].Quantity < 0 THEN [fl[k] EXCEPT !.Quantity = ClampTo] ELSE fl[k]]

\* x NOT IN (SELECT key FROM t): true when the SELECT has no row; otherwise NULL
\* (not true) when x is NULL
NotIn(x, t) == Keys(t) = {} \/ (x # NULL /\ x \notin Keys(t))

\* DELETE FROM claims WHERE Food_ID NOT IN (...) OR Receiver_ID NOT IN (...)
DeleteInvalidClaims(cl, fl, rc) ==
    Restrict(cl, {k \in Keys(cl) :
        ~ (NotIn(cl[k].Food_ID, fl) \/ NotIn(cl[k].Receiver_ID, rc))})

\* the three statements with the claims cleaned first
CleanedDbClaimsFirst(s, d) ==
    LET cl1 == DeleteInvalidClaims(s.claims, s.food_listings, s.receivers)
        fl1 == DeleteExpired(s.food_listings, d)
        fl2 == FixQuantities(fl1)
    IN  [s EXCEPT !.food_listings = fl2, !.claims = cl1]

\* the three statements of clean_data, in their order, and the commit
CleanedDb(s, d) ==
    LET fl1 == DeleteExpired(s.food_listings, d)
        fl2 == FixQuantities(fl1)
        cl1 == DeleteInvalidClaims(s.claims, fl2, s.receivers)
    IN  [s EXCEPT !.food_listings = fl2, !.claims = cl1]

\* a file that is missing or that pd.read_csv / to_sql cannot take
NoFile == [state |-> "bad", rows |-> EmptyTable]
\* a file not read yet
Unread == [state |-> "unread", rows |-> EmptyTable]

File(rows) == [state |-> "good", rows |-> rows]

\* df.to_sql(table, if_exists="append"): one transaction, all rows or none;
\* a primary key already in the table raises and the transaction rolls back
CanAppend(t, f) == f.state = "good" /\ Keys(f.rows) \cap Keys(t) = {}

to_sql(t, f) ==
    IF CanAppend(t, f)
    THEN [k \in Keys(t) \cup Keys(f.rows) |-> IF k \in Keys(t) THEN t[k] ELSE f.rows[k]]
    ELSE t

\* input files of the model
Ids == 1..MaxId
Refs == {NULL} \cup (1..(MaxId + 1))

PartyRow == [Name |-> "Alpha", City |-> "North", Contact |-> "c1"]

PartyFiles ==
    {NoFile, File([k \in {1} |-> PartyRow]), File([k \in Ids |-> PartyRow])}

LoaderExpiry(d) == {Iso(d - 1), Iso(d), Us(d - 1)}

LoaderFoodRows(d) ==
    {[Food_Name |-> "Rice", Quantity |-> q, Expiry_Date |-> e, Provider_ID |-> 1,
      Location |-> "North", Food_Type |-> "Veg"] :
        q \in {-5, 0, 2}, e \in LoaderExpiry(d)}

TablesOver(keys, rows) == UNION {[S -> rows] : S \in SUBSET keys}

FoodFiles(d) == {NoFile} \cup {File(t) : t \in TablesOver(Ids, LoaderFoodRows(d))}

ClaimRows ==
    {[Food_ID |-> f, Receiver_ID |-> r, Status |-> "Pending"] : f \in Refs, r \in Refs}

ClaimFiles == {NoFile} \cup {File(t) : t \in TablesOver({1}, ClaimRows)}

FilesFor(table, d) ==
    CASE table = "providers" -> PartyFiles
      [] table = "receivers" -> PartyFiles
      [] table = "food_listings" -> FoodFiles(d)
      [] table = "claims" -> ClaimFiles

NoQc == [ran |-> FALSE, invalidQty |-> FALSE, counts |-> <<0, 0, 0, 0>>]

NoFiles == [t \in TableSet |-> Unread]

NoOp == [name |-> "none", entity |-> "none", key |-> NULL, field |-> "none"]
NoCreated == [entity |-> "none", key |-> NULL, row |-> NULL]

NoFilters == [city |-> {}, provider |-> {}, foodtype |-> {}]

AppIdle ==
    /\ filters = NoFilters
    /\ results = <<>> /\ current = <<>> /\ ret = None /\ op = NoOp
    /\ created = NoCreated /\ report = <<>> /\ nops = 0

AppUnchanged == UNCHANGED <<filters, results, current, ret, op, created, report, nops>>

\* a clear that leaves food_listings as it is
ClearedButListings(s) == [EmptyDb EXCEPT !.food_listings = s.food_listings]

\* DELETE FROM each of the four tables, then conn.commit()
Cleared(s) == EmptyDb

\* clear_tables
clear_tables ==
    /\ pc = "clear"
    /\ db' = Cleared(db)
    /\ pc' = "import_providers"
    /\ ran' = Append(ran, "clear")
    /\ UNCHANGED <<today, files, qc>>
    /\ AppUnchanged

ImportPc(table) ==
    CASE table = "providers" -> "import_providers"
      [] table = "receivers" -> "import_receivers"
      [] table = "food_listings" -> "import_food_listings"
      [] table = "claims" -> "import_claims"

AfterImport(table) ==
    CASE table = "providers" -> "import_receivers"
      [] table = "receivers" -> "import_food_listings"
      [] table = "food_listings" -> "import_claims"
      [] table = "claims" -> "clean"

\* an exception inside import_csv_to_table leaves the function
OnImportErrorRaise(table) == "aborted"

\* except Exception as e: print(...) -- the caller goes on with its next statement
OnImportError(table) == AfterImport(table)

\* import_csv_to_table(csv_file, table_name) with the file's contents f
ImportFile(table, f) ==
    /\ pc = ImportPc(table)
    /\ files' = [files EXCEPT ![table] = f]
    /\ db' = [db EXCEPT ![table] = to_sql(db[table], f)]
    /\ pc' = IF CanAppend(db[table], f) THEN AfterImport(table) ELSE OnImportError(table)
    /\ ran' = Append(ran, table)
    /\ UNCHANGED <<today, qc>>
    /\ AppUnchanged

\* import_csv_to_table(csv_file, table_name)
import_csv_to_table(table) ==
    /\ pc = ImportPc(table)
    /\ \E f \in FilesFor(table, today) : ImportFile(table, f)

\* clean_data: the Clean stage, as the step of __main__ (pc = "clean") or run on
\* its own against the store (pc = "idle")
clean_data ==
    /\ pc \in {"clean", "idle"}
    /\ pc = "idle" => nops < MaxOps
    /\ db' = CleanedDb(db, today)
    /\ pc' = IF pc = "clean" THEN "check" ELSE pc
    /\ ran' = IF pc = "clean" THEN Append(ran, "clean") ELSE ran
    /\ op' = [NoOp EXCEPT !.name = "clean"]
    /\ nops' = nops + 1
    /\ UNCHANGED <<today, files, qc, filters, results, current, ret, created, report>>

\* data_quality_check: row counts and (df_food['Quantity'] <= 0).any()
data_quality_check ==
    /\ pc = "check"
    /\ qc' = [ran |-> TRUE,
              invalidQty |-> \E k \in Keys(db.food_listings) : db.food_listings[k].Quantity <= 0,
              counts |-> [i \in 1..4 |-> Cardinality(Keys(db[Tables[i]]))]]
    /\ pc' = "done"
    /\ ran' = Append(ran, "check")
    /\ UNCHANGED <<db, today, files>>
    /\ AppUnchanged

\* a store left by an earlier run
SeedDb ==
    [providers |-> [k \in {1} |-> PartyRow],
     receivers |-> [k \in {1} |-> PartyRow],
     food_listings |-> [k \in {1} |->
        [Food_Name |-> "Rice", Quantity |-> 2, Expiry_Date |-> Iso(3), Provider_ID |-> 1,
         Location |-> "North", Food_Type |-> "Veg"]],
     claims |-> [k \in {1} |-> [Food_ID |-> 1, Receiver_ID |-> 1, Status |-> "Pending"]]]

StartDays == {2}

LoaderInit ==
    /\ db \in {EmptyDb, SeedDb}
    /\ today \in StartDays
    /\ pc = "clear"
    /\ files = NoFiles
    /\ ran = <<>>
    /\ qc = NoQc
    /\ AppIdle

LoaderNext ==
    \/ clear_tables
    \/ \E table \in TableSet : import_csv_to_table(table)
    \/ clean_data
    \/ data_quality_check

SpecLoader == LoaderInit /\ [][LoaderNext]_vars

-----------------------------------------------------------------------------
(* Ordering of query results *)

\* the orders in which a query may return the rows with the keys S
Perms(S) ==
    {s \in [1..Cardinality(S) -> S] : \A i, j \in 1..Cardinality(S) : i # j => s[i] # s[j]}

\* ORDER BY date(Expiry_Date) DESC
OrderByDateDesc(s, fl) ==
    \A i \in 1..(Len(s) - 1) :
        sqlDate(fl[s[i]].Expiry_Date) >= sqlDate(fl[s[i + 1]].Expiry_Date)

\* ORDER BY date(Expiry_Date) ASC over the listings fl: NULL sorts first, rows
\* with equal dates come in any order
OrderByDate(s, fl) ==
    \A i \in 1..(Len(s) - 1) :
        sqlDate(fl[s[i]].Expiry_Date) <= sqlDate(fl[s[i + 1]].Expiry_Date)

-----------------------------------------------------------------------------
(* Report 7 of the SQL Insights page: app.py *)

\* x BETWEEN lo AND hi: both ends included, NULL (not true) when x is NULL
Between(x, lo, hi) == x # NULL /\ lo <= x /\ x <= hi

\* date(?, '+3 day')
PlusDays(x, n) == IF sqlDate(x) = NULL THEN NULL ELSE sqlDate(x) + n

NearExpiry(fl, d) ==
    {k \in Keys(fl) :
        Between(sqlDate(fl[k].Expiry_Date), sqlDate(strftime(d)), PlusDays(strftime(d), NearDays))}

Report7Row(fl, k) ==
    [Food_ID |-> k, Food_Name |-> fl[k].Food_Name, Quantity |-> fl[k].Quantity,
     Expiry_Date |-> fl[k].Expiry_Date, Location |-> fl[k].Location]

Report7 ==
    /\ nops < MaxOps
    /\ \E s \in Perms(NearExpiry(db.food_listings, today)) :
        /\ OrderByDate(s, db.food_listings)
        /\ report' = [i \in 1..Len(s) |-> Report7Row(db.food_listings, s[i])]
    /\ op' = [NoOp EXCEPT !.name = "report7"]
    /\ nops' = nops + 1
    /\ UNCHANGED <<db, today, pc, files, ran, qc, filters, results, current, ret, created>>

\* stores the Clean stage and report 7 are run against
CleanExpiry(d) == {Iso(d - 1), Iso(d), Iso(d + NearDays), Iso(d + NearDays + 1), Us(d)}

CleanFoodRows(d) ==
    {[Food_Name |-> "Rice", Quantity |-> q, Expiry_Date |-> e, Provider_ID |-> 1,
      Location |-> "North", Food_Type |-> "Veg"] :
        q \in {-5, 2}, e \in CleanExpiry(d)}

CleanStores(d) ==
    {[providers |-> [k \in {1} |-> PartyRow], receivers |-> rc, food_listings |-> fl,
      claims |-> cl] :
        rc \in {[k \in {1} |-> PartyRow]},
        fl \in TablesOver(Ids, CleanFoodRows(d)),
        cl \in TablesOver({1}, ClaimRows)}

CleanInit ==
    /\ today \in StartDays
    /\ db \in CleanStores(today)
    /\ pc = "idle"
    /\ files = NoFiles
    /\ ran = <<>>
    /\ qc = NoQc
    /\ AppIdle

CleanNext ==
    \/ clean_data
    \/ Report7

SpecClean == CleanInit /\ [][CleanNext]_vars

-----------------------------------------------------------------------------
(* Standalone consistency check: data_check.py *)

\* the time of day of a pandas Timestamp or of datetime.now(): Midnight is
\* 00:00:00.000000, LaterInDay any later time of the same day
Midnight == 0
LaterInDay == 1
TimesOfDay == {Midnight, LaterInDay}

\* datetime.now()
Now(d, t) == [day |-> d, time |-> t]

\* the first row of SELECT ... FROM food_listings (rowid order)
FirstKey(fl) == CHOOSE k \in Keys(fl) : \A j \in Keys(fl) : k <= j

\* pd.to_datetime(column, errors='coerce', dayfirst=False): the day each text
\* denotes (the Timestamp is that day at Midnight), NULL for NaT.  With
\* elementwise = TRUE every text is parsed on its own (pandas before 2.0); with
\* elementwise = FALSE the format is guessed from the first row and a text in
\* another format becomes NaT (pandas 2.0 and later), unless no format can be
\* guessed from the first row and every text is parsed on its own
to_datetime(fl, elementwise) ==
    [k \in Keys(fl) |->
        IF elementwise \/ fl[FirstKey(fl)].Expiry_Date.fmt = "bad"
                       \/ fl[k].Expiry_Date.fmt = fl[FirstKey(fl)].Expiry_Date.fmt
        THEN DayOf(fl[k].Expiry_Date)
        ELSE NULL]

\* Timestamp(day at Midnight) < now; a comparison with NaT is False
BeforeNow(day, now) ==
    /\ day # NULL
    /\ \/ day < now.day
       \/ day = now.day /\ Midnight < now.time

\* expired[expired['Expiry_Date'] < today]
ExpiredItems(fl, now, elementwise) ==
    {k \in Keys(fl) : BeforeNow(to_datetime(fl, elementwise)[k], now)}

\* delete_expired_food(conn): DELETE FROM food_listings WHERE Food_ID IN (...)
delete_expired_food(fl, now, elementwise) ==
    Restrict(fl, Keys(fl) \ ExpiredItems(fl, now, elementwise))

\* check_and_fix_data: the counts and checks before line 63 only print; the
\* expired check reads the clock once, delete_expired_food reads it again
check_and_fix_data ==
    /\ pc = "idle"
    /\ nops < MaxOps
    /\ \E elementwise \in BOOLEAN, t1 \in TimesOfDay, t2 \in TimesOfDay :
        /\ t1 <= t2
        /\ db' = IF ExpiredItems(db.food_listings, Now(today, t1), elementwise) # {}
                 THEN [db EXCEPT !.food_listings =
                        delete_expired_food(db.food_listings, Now(today, t2), elementwise)]
                 ELSE db
    /\ op' = [NoOp EXCEPT !.name = "check_and_fix_data"]
    /\ nops' = nops + 1
    /\ UNCHANGED <<today, pc, files, ran, qc, filters, results, current, ret, created, report>>

\* stores the consistency check and the Clean stage are run against
CheckExpiry(d) == {Iso(d - 1), Iso(d), Iso(d + 1), Us(d - 1), Us(d), BadDate}

CheckFoodRows(d) ==
    {[Food_Name |-> "Rice", Quantity |-> 2, Expiry_Date |-> e, Provider_ID |-> 1,
      Location |-> "North", Food_Type |-> "Veg"] : e \in CheckExpiry(d)}

CheckStores(d) ==
    {[providers |-> [k \in {1} |-> PartyRow], receivers |-> [k \in {1} |-> PartyRow],
      food_listings |-> fl, claims |-> cl] :
        fl \in TablesOver(Ids, CheckFoodRows(d)),
        cl \in TablesOver({1}, ClaimRows)}

CheckInit ==
    /\ today \in StartDays
    /\ db \in CheckStores(today)
    /\ pc = "idle"
    /\ files = NoFiles
    /\ ran = <<>>
    /\ qc = NoQc
    /\ AppIdle

CheckNext ==
    \/ check_and_fix_data
    \/ clean_data

SpecCheck == CheckInit /\ [][CheckNext]_vars

-----------------------------------------------------------------------------
(* Browse & Filter: app.py *)

\* the value of a column of the right side of a LEFT JOIN that matched no row
NullText == "NULL"

NullProvider == [Name |-> NullText, City |-> NullText, Contact |-> NullText]

\* FROM food_listings l LEFT JOIN providers p ON p.Provider_ID = l.Provider_ID:
\* one joined row per listing (Provider_ID is the primary key of providers)
LeftJoin(fl, pv) ==
    [k \in Keys(fl) |->
        [l |-> fl[k],
         p |-> IF fl[k].Provider_ID \in Keys(pv) THEN pv[fl[k].Provider_ID] ELSE NullProvider]]

\* x IN (?, ?, ...): NULL (not true) when x is NULL
InList(x, selected) == x # NullText /\ x \in selected

\* the list `conditions`: one entry per multiselect with a selection
Conditions(f) ==
    (IF f.city # {} THEN {"l.Location"} ELSE {})
    \cup (IF f.provider # {} THEN {"p.Name"} ELSE {})
    \cup (IF f.foodtype # {} THEN {"l.Food_Type"} ELSE {})

Condition(c, j, f) ==
    CASE c = "l.Location" -> InList(j.l.Location, f.city)
      [] c = "p.Name" -> InList(j.p.Name, f.provider)
      [] c = "l.Food_Type" -> InList(j.l.Food_Type, f.foodtype)

\* a WHERE that joins the conditions with OR
where_clause_or(j, f) ==
    Conditions(f) = {} \/ \E c \in Conditions(f) : Condition(c, j, f)

\* ("WHERE " + " AND ".join(conditions)) if conditions else ""
where_clause(j, f) == \A c \in Conditions(f) : Condition(c, j, f)

BrowseRow(k, j) ==
    [Food_ID |-> k, Food_Name |-> j.l.Food_Name, Quantity |-> j.l.Quantity,
     Expiry_Date |-> j.l.Expiry_Date, Provider_Name |-> j.p.Name,
     Provider_City |-> j.p.City, Provider_Contact |-> j.p.Contact,
     Location |-> j.l.Location, Food_Type |-> j.l.Food_Type]

\* the options of the three multiselects
cities(fl) == {fl[k].Location : k \in Keys(fl)} \ {NullText}
prov_names(pv) == {pv[k].Name : k \in Keys(pv)} \ {NullText}
food_types(fl) == {fl[k].Food_Type : k \in Keys(fl)} \ {NullText}

Browse ==
    /\ nops < MaxOps
    /\ \E f_city \in SUBSET cities(db.food_listings),
          f_provider \in SUBSET prov_names(db.providers),
          f_foodtype \in SUBSET food_types(db.food_listings) :
        LET f == [city |-> f_city, provider |-> f_provider, foodtype |-> f_foodtype]
            joined == LeftJoin(db.food_listings, db.providers)
            hits == {k \in Keys(joined) : where_clause(joined[k], f)}
        IN  /\ filters' = f
            /\ \E s \in Perms(hits) :
                /\ OrderByDate(s, db.food_listings)
                /\ results' = [i \in 1..Len(s) |-> BrowseRow(s[i], joined[s[i]])]
    /\ op' = [NoOp EXCEPT !.name = "browse"]
    /\ nops' = nops + 1
    /\ UNCHANGED <<db, today, pc, files, ran, qc, current, ret, created, report>>

\* stores the page is opened on
Listing(loc, ft, pid, e) ==
    [Food_Name |-> "Rice", Quantity |-> 2, Expiry_Date |-> e, Provider_ID |-> pid,
     Location |-> loc, Food_Type |-> ft]

BrowseFoodRows ==
    {Listing("North", "Veg", 1, Iso(2)), Listing("South", "Veg", 1, Iso(1)),
     Listing("North", "Vegan", 2, Iso(1)), Listing("South", "Vegan", MaxId + 1, Us(1)),
     Listing("North", "Veg", MaxId + 1, Iso(3)), Listing("South", "Veg", 2, BadDate)}

Party(name) == [Name |-> name, City |-> "North", Contact |-> "c1"]

BrowseProviders ==
    {[k \in {1, 2} |-> IF k = 1 THEN Party("Alpha") ELSE Party("Beta")],
     [k \in {1, 2} |-> Party("Alpha")]}

BrowseInit ==
    /\ today \in StartDays
    /\ \E pv \in BrowseProviders, fl \in TablesOver(Ids, BrowseFoodRows) :
        db = [providers |-> pv, receivers |-> EmptyTable, food_listings |-> fl,
              claims |-> EmptyTable]
    /\ pc = "idle"
    /\ files = NoFiles
    /\ ran = <<>>
    /\ qc = NoQc
    /\ AppIdle

BrowseNext == Browse

SpecBrowse == BrowseInit /\ [][BrowseNext]_vars

-----------------------------------------------------------------------------
(* CRUD page: app.py *)

key_col ==
    [providers |-> "Provider_ID", receivers |-> "Receiver_ID",
     food_listings |-> "Food_ID", claims |-> "Claim_ID"]

\* the columns of `current` other than the key column
Fields ==
    [providers |-> {"Name", "City", "Contact"},
     receivers |-> {"Name", "City", "Contact"},
     food_listings |-> {"Food_Name", "Quantity", "Expiry_Date", "Provider_ID",
                        "Location", "Food_Type"},
     claims |-> {"Food_ID", "Receiver_ID", "Status"}]

\* columns declared INTEGER in database_setup.py
IntegerColumns == {"Quantity", "Provider_ID", "Food_ID", "Receiver_ID"}

\* the integer a text of digits is stored as in a column of INTEGER affinity
TextToInt == [t \in {"1", "2", "7"} |-> CASE t = "1" -> 1 [] t = "2" -> 2 [] t = "7" -> 7]

\* column affinity applied to a bound text parameter
Affinity(field, v) == IF field \in IntegerColumns THEN TextToInt[v] ELSE v

\* the largest primary key of the model
KeyMax == ReadLimit + MaxId + 1

\* the keys of a table in rowid order, the order of a scan without ORDER BY
RowidOrder(t) ==
    LET Present(k) == k \in Keys(t)
    IN  SelectSeq([i \in 1..KeyMax |-> i], Present)

\* LIMIT one short of 500
SelectLimitShort(t) ==
    LET ks == RowidOrder(t)
        n == IF Len(ks) < ReadLimit - 1 THEN Len(ks) ELSE ReadLimit - 1
    IN  [i \in 1..n |-> [key |-> ks[i], row |-> t[ks[i]]]]

\* SELECT * FROM {entity} LIMIT 500
SelectLimit(t) ==
    LET ks == RowidOrder(t)
        n == IF Len(ks) < ReadLimit THEN Len(ks) ELSE ReadLimit
    IN  [i \in 1..n |-> [key |-> ks[i], row |-> t[ks[i]]]]

\* READ: current = run_query(f"SELECT * FROM {entity} LIMIT 500")
Read(entity) ==
    /\ nops < MaxOps
    /\ current' = SelectLimit(db[entity])
    /\ op' = [NoOp EXCEPT !.name = "read", !.entity = entity]
    /\ nops' = nops + 1
    /\ UNCHANGED <<db, today, pc, files, ran, qc, filters, results, ret, created, report>>

\* INSERT OR REPLACE
InsertOrReplace(t, key, row) ==
    [k \in Keys(t) \cup {key} |-> IF k = key THEN row ELSE t[k]]

\* INSERT INTO t (...) VALUES (...): a key already present violates PRIMARY KEY,
\* the statement raises and writes nothing
Insert(t, key, row) ==
    IF key \in Keys(t) THEN t
    ELSE [k \in Keys(t) \cup {key} |-> IF k = key THEN row ELSE t[k]]

\* run_execute of an INSERT: cur.lastrowid, or None from the except branch
InsertReturn(t, key) == IF key \in Keys(t) THEN None ELSE key

\* CREATE: the add_* forms
Create(entity, key, row) ==
    /\ pc = "idle"
    /\ nops < MaxOps
    /\ db' = [db EXCEPT ![entity] = Insert(db[entity], key, row)]
    /\ ret' = InsertReturn(db[entity], key)
    /\ created' = IF key \in Keys(db[entity]) THEN created
                  ELSE [entity |-> entity, key |-> key, row |-> row]
    /\ op' = [NoOp EXCEPT !.name = "create", !.entity = entity, !.key = key]
    /\ nops' = nops + 1
    /\ UNCHANGED <<today, pc, files, ran, qc, filters, results, current, report>>

\* UPDATE t SET field = ? with no WHERE
SetFieldAll(t, field, key, value) ==
    [k \in Keys(t) |-> [t[k] EXCEPT ![field] = Affinity(field, value)]]

\* UPDATE {entity} SET {field} = ? WHERE {key_col} = ?
SetField(t, field, key, value) ==
    [k \in Keys(t) |-> IF k = key THEN [t[k] EXCEPT ![field] = Affinity(field, value)] ELSE t[k]]

\* UPDATE: update_form
Update(entity, field, record_id, new_value) ==
    /\ pc = "idle"
    /\ nops < MaxOps
    /\ db' = [db EXCEPT ![entity] = SetField(db[entity], field, record_id, new_value)]
    /\ ret' = None
    /\ created' = NoCreated
    /\ op' = [name |-> "update", entity |-> entity, key |-> record_id, field |-> field]
    /\ nops' = nops + 1
    /\ UNCHANGED <<today, pc, files, ran, qc, filters, results, current, report>>

\* DELETE FROM {entity} WHERE {key_col} = ?
DeleteRow(t, key) == Restrict(t, Keys(t) \ {key})

\* a DELETE that takes the referencing rows with it, as ON DELETE CASCADE with
\* foreign keys enforced would
DeleteFromCascade(s, entity, key) ==
    LET fl == IF entity = "providers"
              THEN Restrict(s.food_listings,
                        {k \in Keys(s.food_listings) : s.food_listings[k].Provider_ID # key})
              ELSE s.food_listings
        cl == CASE entity = "food_listings" ->
                    Restrict(s.claims, {c \in Keys(s.claims) : s.claims[c].Food_ID # key})
                [] entity = "receivers" ->
                    Restrict(s.claims, {c \in Keys(s.claims) : s.claims[c].Receiver_ID # key})
                [] OTHER -> s.claims
        t == [s EXCEPT !.food_listings = fl, !.claims = cl]
    IN [t EXCEPT ![entity] = DeleteRow(t[entity], key)]

\* run_execute("DELETE FROM {entity} WHERE {key_col} = ?", (del_id,)) on the store:
\* the tables declare no ON DELETE action and no connection turns foreign keys on
DeleteFrom(s, entity, key) == [s EXCEPT ![entity] = DeleteRow(s[entity], key)]

\* DELETE: delete_form
Delete(entity, del_id) ==
    /\ pc = "idle"
    /\ nops < MaxOps
    /\ db' = DeleteFrom(db, entity, del_id)
    /\ ret' = None
    /\ created' = NoCreated
    /\ op' = [NoOp EXCEPT !.name = "delete", !.entity = entity, !.key = del_id]
    /\ nops' = nops + 1
    /\ UNCHANGED <<today, pc, files, ran, qc, filters, results, current, report>>

\* what the forms are filled with
FormRows(entity) ==
    CASE entity = "providers" -> {Party("Gamma")}
      [] entity = "receivers" -> {Party("Delta")}
      [] entity = "food_listings" -> {Listing("South", "Vegan", 1, Iso(3))}
      [] entity = "claims" -> {[Food_ID |-> 1, Receiver_ID |-> 1, Status |-> "Completed"]}

NewValues(field) ==
    CASE field \in IntegerColumns -> {"7"}
      [] field = "Expiry_Date" -> {Iso(1)}
      [] OTHER -> {"Zed"}

FormKeys == 1..(MaxId + 1)

CrudInit ==
    /\ today \in StartDays
    /\ db \in {EmptyDb, SeedDb,
                [SeedDb EXCEPT !.providers = [k \in Ids |-> Party("Alpha")],
                               !.claims = [k \in Ids |-> SeedDb.claims[1]]]}
    /\ pc = "idle"
    /\ files = NoFiles
    /\ ran = <<>>
    /\ qc = NoQc
    /\ AppIdle

CrudNext ==
    \/ \E entity \in TableSet : Read(entity)
    \/ \E entity \in TableSet, key \in FormKeys :
            \E row \in FormRows(entity) : Create(entity, key, row)
    \/ \E entity \in TableSet, record_id \in FormKeys :
            \E field \in Fields[entity] :
                \E new_value \in NewValues(field) : Update(entity, field, record_id, new_value)
    \/ \E entity \in TableSet, del_id \in FormKeys : Delete(entity, del_id)

SpecCrud == CrudInit /\ [][CrudNext]_vars

\* stores with a table at and just under the cap of Read
FilledProviders(n) == [k \in 1..n |-> Party("Alpha")]

ReadInit ==
    /\ today \in StartDays
    /\ \E n \in {0, 1, ReadLimit - 1, ReadLimit} :
        db = [EmptyDb EXCEPT !.providers = FilledProviders(n)]
    /\ pc = "idle"
    /\ files = NoFiles
    /\ ran = <<>>
    /\ qc = NoQc
    /\ AppIdle

ReadKeys == {1, ReadLimit, ReadLimit + 1}

ReadNext ==
    \/ \E entity \in TableSet : Read(entity)
    \/ \E entity \in TableSet, key \in ReadKeys :
            \E row \in FormRows(entity) : Create(entity, key, row)

SpecRead == ReadInit /\ [][ReadNext]_vars

-----------------------------------------------------------------------------
(* The Bulk Loader run against the store the app is reading *)

\* the CSV files of a reload: the rows the store was loaded from, and for
\* food_listings also a file with a listing more
LiveFiles(table) ==
    {File(SeedDb[table])} \cup
    IF table = "food_listings"
    THEN {File([k \in Ids |-> SeedDb.food_listings[1]])}
    ELSE {}

\* the app's readers: each run_query opens its own connection and reads the
\* store as last committed
Reader ==
    \/ Browse
    \/ \E entity \in TableSet : Read(entity)
    \/ Report7

LiveInit ==
    /\ today \in StartDays
    /\ db = SeedDb
    /\ pc = "clear"
    /\ files = NoFiles
    /\ ran = <<>>
    /\ qc = NoQc
    /\ AppIdle

LiveNext ==
    \/ clear_tables
    \/ \E table \in TableSet : \E f \in LiveFiles(table) : ImportFile(table, f)
    \/ clean_data
    \/ data_quality_check
    \/ Reader

SpecLive == LiveInit /\ [][LiveNext]_vars

-----------------------------------------------------------------------------
(* Claims about the Bulk Loader *)

\* a listing whose Expiry_Date denotes a day before the current day
IsExpired(row, d) == DayOf(row.Expiry_Date) # NULL /\ DayOf(row.Expiry_Date) < d

\* a claim whose Food_ID is no listing's or whose Receiver_ID is no receiver's
IsDangling(c, s) ==
    c.Food_ID \notin Keys(s.food_listings) \/ c.Receiver_ID \notin Keys(s.receivers)

\* C1: after a full Bulk Loader run, whatever the four files hold, food_listings has
\* no row whose Expiry_Date is before the current date and claims has no row whose
\* Food_ID is absent from food_listings or whose Receiver_ID is absent from receivers.
C1_NoExpiredNoDangling ==
    pc = "done" =>
        /\ \A k \in Keys(db.food_listings) : ~ IsExpired(db.food_listings[k], today)
        /\ \A k \in Keys(db.claims) : ~ IsDangling(db.claims[k], db)

\* C2: after a full Bulk Loader run every listing has Quantity >= 1, whatever the
\* Quantity values of the file (negative, zero, positive), and the Quality Check
\* finds no Quantity <= 0.
C2_QuantitiesAtLeastOne ==
    pc = "done" =>
        /\ \A k \in Keys(db.food_listings) : db.food_listings[k].Quantity >= 1
        /\ qc.ran /\ ~ qc.invalidQty

\* the part of C2 that the code does: a negative Quantity of a retained listing is 1
\* after the run
NegativeClamped ==
    pc = "done" =>
        \A k \in Keys(db.food_listings) :
            files.food_listings.rows[k].Quantity < 0 => db.food_listings[k].Quantity = 1

AllStages ==
    <<"clear", "providers", "receivers", "food_listings", "claims", "clean", "check">>

\* C10: a failure importing one file does not abort the run: the run is never
\* stopped by it, every file that can be imported is in its table when the imports
\* are over, and Clean and the Quality Check have run when the run ends.
C10_ImportFailureIsolated ==
    /\ pc # "done" => ENABLED LoaderNext
    /\ pc \in {"clean", "check", "done"} =>
            \A t \in {"providers", "receivers"} :
                files[t].state = "good" => db[t] = files[t].rows
    /\ pc = "clean" =>
            \A t \in TableSet : files[t].state = "good" => db[t] = files[t].rows
    /\ pc = "done" => ran = AllStages /\ qc.ran

\* a run in which exactly one import failed has ended, with the other three files
\* in the store before Clean ran
C10_Witness ==
    /\ pc = "done"
    /\ files.receivers.state = "bad"
    /\ \A t \in TableSet \ {"receivers"} : files[t].state = "good"
    /\ Keys(db.providers) # {} /\ Keys(db.food_listings) # {}
    /\ qc.ran

\* the listings clean_data removes as expired: date(Expiry_Date) < date(today)
RemovedAsExpired(fl, d) ==
    {k \in Keys(fl) : sqlDate(fl[k].Expiry_Date) # NULL /\ sqlDate(fl[k].Expiry_Date) < d}

\* C11: within one clean_data run the expired-listing removal comes before the
\* clamp and before the claim cleanup: an expired listing is gone afterwards
\* whatever its Quantity (an expired one with negative Quantity is deleted, not
\* clamped), every claim whose Food_ID names a listing removed as expired in this
\* run, or a Food_ID that is no listing at all, is gone too, and providers and
\* receivers are as before.
C11_ExpiredRemovedBeforeClampAndClaims ==
    [][(op'.name = "clean" /\ nops' = nops + 1) =>
            /\ Keys(db'.food_listings)
                    = Keys(db.food_listings) \ RemovedAsExpired(db.food_listings, today)
            /\ \A c \in Keys(db.claims) :
                    (/\ db.claims[c].Food_ID # NULL
                     /\ \/ db.claims[c].Food_ID \in RemovedAsExpired(db.food_listings, today)
                        \/ db.claims[c].Food_ID \notin Keys(db.food_listings))
                        => c \notin Keys(db'.claims)
            /\ db'.providers = db.providers
            /\ db'.receivers = db.receivers]_vars

\* Clean has run on an imported listing that was expired and had a negative
\* Quantity, with a claim on it: the listing and the claim are gone, the
\* providers and receivers imported are still there
C11_Witness ==
    /\ pc \in {"check", "done"}
    /\ \A t \in TableSet : files[t].state = "good"
    /\ \E k \in Keys(files.food_listings.rows) :
            /\ files.food_listings.rows[k].Quantity < 0
            /\ k \in RemovedAsExpired(files.food_listings.rows, today)
            /\ k \notin Keys(db.food_listings)
            /\ \E c \in Keys(files.claims.rows) :
                    /\ files.claims.rows[c].Food_ID = k
                    /\ files.claims.rows[c].Receiver_ID \in Keys(files.receivers.rows)
                    /\ c \notin Keys(db.claims)
    /\ db.providers = files.providers.rows /\ Keys(db.providers) # {}
    /\ db.receivers = files.receivers.rows /\ Keys(db.receivers) # {}

\* this step is a reader of the app returning its rows
ReaderStep == nops' = nops + 1 /\ op'.name \in {"browse", "read", "report7"}

\* the rows the reader of this step returned
ReaderRows ==
    CASE op'.name = "browse" -> results'
      [] op'.name = "read" -> current'
      [] OTHER -> report'

\* C14: a reader interleaved with a Bulk Loader run can see an empty result
\* although the store held matching rows before the run and holds them after it:
\* Clear commits before any Import starts, so a read between the two stages sees
\* empty tables; Clear, each file's Import and Clean commit separately and one
\* after the other, a reader between two of them seeing the store as the stages
\* so far have left it.
C14_ReaderSeesClearedStore ==
    [][/\ (pc = "clear" /\ pc' # pc) =>
                db' = EmptyDb /\ ran' = <<"clear">> /\ files' = NoFiles
       /\ (ReaderStep /\ pc = "import_providers") => ReaderRows = <<>>
       /\ ReaderStep => db' = db /\ pc' = pc /\ ran' = ran
       /\ pc' # pc =>
            /\ ran' = SubSeq(AllStages, 1, Len(ran) + 1)
            /\ \A t \in TableSet :
                    db'[t] # db[t] =>
                        \/ ran'[Len(ran')] \in {"clear", t}
                        \/ ran'[Len(ran')] = "clean" /\ t \in {"food_listings", "claims"}]_vars

\* a run over a store that had rows in every table has ended with rows in every
\* table and a listing for report 7, and the one reader that ran during the run,
\* before Clean, returned no row: it read a table between Clear and that
\* table's Import
C14_Witness ==
    /\ pc = "done"
    /\ op.name = "clean" /\ nops = 2
    /\ results = <<>> /\ current = <<>> /\ report = <<>>
    /\ \A t \in TableSet : Keys(db[t]) # {}
    /\ NearExpiry(db.food_listings, today) # {}

\* Browse & Filter has run right after Clear and shows no listing
C14_WitnessEmptyBrowse ==
    /\ pc = "import_providers"
    /\ op.name = "browse" /\ nops = 1
    /\ results = <<>>
    /\ db = EmptyDb

\* a reader sees the rows of the files imported so far and none of the others
C14_WitnessHalfLoaded ==
    /\ pc = "import_claims"
    /\ op.name = "read" /\ op.entity = "food_listings" /\ nops = 1
    /\ current # <<>>
    /\ Keys(db.claims) = {}

-----------------------------------------------------------------------------
(* Claims about the Clean stage and report 7 *)

\* C5: Clean is idempotent: with the current date fixed, a clean_data run that
\* directly follows a clean_data run removes no row and changes no Quantity, in
\* any of the four tables.
C5_CleanIdempotent ==
    [][(op.name = "clean" /\ op'.name = "clean" /\ nops' = nops + 1) => db' = db]_vars

\* a second clean_data run has followed a first one that removed a listing
C5_Witness ==
    /\ op.name = "clean" /\ nops = 2
    /\ Keys(db.food_listings) # {}
    /\ \E k \in Ids : k \notin Keys(db.food_listings)
    /\ Keys(db.claims) # {}

\* the listings expiring on day d, as SQLite reads the Expiry_Date text
ExpiringOn(fl, d) == {k \in Keys(fl) : sqlDate(fl[k].Expiry_Date) = d}

\* C6: a listing whose Expiry_Date is the current date is not removed by clean_data
\* and is in report 7; report 7 holds exactly the listings whose Expiry_Date is
\* one of today, today+1, today+2, today+3.
C6_TodayKeptAndReported ==
    [][/\ op'.name = "clean" =>
            ExpiringOn(db.food_listings, today) \subseteq Keys(db'.food_listings)
       /\ op'.name = "report7" =>
            /\ ExpiringOn(db.food_listings, today) \subseteq {report'[i].Food_ID : i \in 1..Len(report')}
            /\ {report'[i].Food_ID : i \in 1..Len(report')}
                    = UNION {ExpiringOn(db.food_listings, today + n) : n \in 0..NearDays}
            /\ Len(report') = Cardinality({report'[i].Food_ID : i \in 1..Len(report')})]_vars

\* report 7 has run after clean_data: the one row it shows expires today and has
\* the Quantity 1 that only the clamp of clean_data produces, so that row went
\* through Clean and was kept
C6_Witness ==
    /\ op.name = "report7" /\ nops = 2
    /\ Len(report) = 1
    /\ sqlDate(report[1].Expiry_Date) = today
    /\ report[1].Quantity = ClampTo
    /\ \E k \in Keys(db.food_listings) :
            sqlDate(db.food_listings[k].Expiry_Date) = today + NearDays + 1

\* C13: for the same food_listings and the same current moment the standalone
\* check (check_and_fix_data / delete_expired_food) deletes exactly the listings
\* that step a of clean_data would delete, those whose Expiry_Date is strictly
\* before the current date; a listing expiring today is kept by both.
C13_CheckDeletesWhatCleanDeletes ==
    [][op'.name = "check_and_fix_data" =>
            /\ db'.food_listings = DeleteExpired(db.food_listings, today)
            /\ \A k \in Keys(db.food_listings) :
                    DayOf(db.food_listings[k].Expiry_Date) = today
                        => k \in Keys(db'.food_listings)]_vars

\* the check has deleted a listing that step a of clean_data keeps
C13_CheckDeletedMore ==
    /\ op.name = "check_and_fix_data" /\ nops = 1
    /\ \E s \in CheckStores(today) :
            /\ s.food_listings # db.food_listings
            /\ DeleteExpired(s.food_listings, today) = s.food_listings
            /\ \E t \in TimesOfDay :
                    db.food_listings = delete_expired_food(s.food_listings, Now(today, t), TRUE)

-----------------------------------------------------------------------------
(* Claims about Browse & Filter *)

\* the listing k passes the filter f: for each dimension with a selection its
\* value is one of the selected ones, the provider name being that of the provider
\* the listing's Provider_ID names
Passes(k, f, s) ==
    LET row == s.food_listings[k] IN
    /\ f.city # {} => row.Location \in f.city
    /\ f.provider # {} =>
            /\ row.Provider_ID \in Keys(s.providers)
            /\ s.providers[row.Provider_ID].Name \in f.provider
    /\ f.foodtype # {} => row.Food_Type \in f.foodtype

ResultIds == {results[i].Food_ID : i \in 1..Len(results)}

\* C3: the Browse & Filter query returns exactly the listings that pass the filter,
\* each once and with its own columns; with no selection at all it returns every
\* listing, those without a provider included.
C3_FilterExact ==
    op.name = "browse" =>
        /\ ResultIds = {k \in Keys(db.food_listings) : Passes(k, filters, db)}
        /\ Len(results) = Cardinality(ResultIds)
        /\ \A i \in 1..Len(results) :
            /\ results[i].Location = db.food_listings[results[i].Food_ID].Location
            /\ results[i].Food_Type = db.food_listings[results[i].Food_ID].Food_Type
        /\ filters = NoFilters => ResultIds = Keys(db.food_listings)

\* a query with a selection in all three dimensions has returned one of two
\* listings, the other failing one dimension only
C3_Witness ==
    /\ op.name = "browse"
    /\ filters.city # {} /\ filters.provider # {} /\ filters.foodtype # {}
    /\ Len(results) = 1
    /\ \E k \in Keys(db.food_listings) \ ResultIds :
        /\ db.food_listings[k].Location \in filters.city
        /\ db.food_listings[k].Food_Type \in filters.foodtype

\* a query with no selection has returned a listing whose provider does not exist
C3_WitnessUnfiltered ==
    /\ op.name = "browse" /\ filters = NoFilters
    /\ \E i \in 1..Len(results) : results[i].Provider_Name = NullText

\* C4: the rows of the Browse & Filter query are in non-decreasing order of the
\* parsed Expiry_Date: of two returned rows with a parsed date, the one with the
\* later date never comes first.
C4_OrderedByExpiry ==
    op.name = "browse" =>
        \A i, j \in 1..Len(results) :
            (i < j /\ sqlDate(results[i].Expiry_Date) # NULL
                   /\ sqlDate(results[j].Expiry_Date) # NULL)
                => sqlDate(results[i].Expiry_Date) <= sqlDate(results[j].Expiry_Date)

\* a query has returned the listing with the larger Food_ID first because it
\* expires earlier
C4_Witness ==
    /\ op.name = "browse"
    /\ Len(results) = 2
    /\ results[1].Food_ID > results[2].Food_ID
    /\ sqlDate(results[1].Expiry_Date) # NULL
    /\ sqlDate(results[1].Expiry_Date) < sqlDate(results[2].Expiry_Date)

-----------------------------------------------------------------------------
(* Claims about the CRUD page *)

\* the last Read shows the row the last Create inserted, with the values supplied
ReadShowsCreated ==
    \E i \in 1..Len(current) :
        current[i].key = created.key /\ current[i].row = created.row

\* C7 as claimed: whatever the number of rows of the table, the Read that follows
\* a Create of a new primary key returns the inserted row with the values supplied.
C7_RoundTripAnySize ==
    (op.name = "read" /\ created.entity = op.entity) => ReadShowsCreated

\* C7, amended: the Read that follows a Create of a new primary key returns the
\* inserted row with the values supplied whenever the table then holds at most
\* 500 rows.
C7_RoundTripWithinLimit ==
    (op.name = "read" /\ created.entity = op.entity
        /\ Cardinality(Keys(db[op.entity])) <= ReadLimit) => ReadShowsCreated

\* a Read has returned the row created as the 500th row of its table
C7_Witness ==
    /\ op.name = "read" /\ created.entity = op.entity
    /\ Cardinality(Keys(db[op.entity])) = ReadLimit
    /\ created.key = ReadLimit
    /\ ReadShowsCreated

\* C8: Update changes only the named field of the row with the given primary key:
\* the other fields of that row, the other rows of the table and the other tables
\* stay as they were, and with no row of that key nothing changes at all.
C8_UpdateFrame ==
    [][op'.name = "update" =>
        LET e == op'.entity
            k == op'.key
        IN  /\ \A t \in TableSet \ {e} : db'[t] = db[t]
            /\ Keys(db'[e]) = Keys(db[e])
            /\ \A r \in Keys(db[e]) \ {k} : db'[e][r] = db[e][r]
            /\ k \in Keys(db[e]) =>
                    \A g \in Fields[e] \ {op'.field} : db'[e][k][g] = db[e][k][g]
            /\ k \notin Keys(db[e]) => db' = db]_vars

\* an Update has set the Name of one of two providers, the other keeps its Name
C8_Witness ==
    /\ op.name = "update" /\ op.entity = "providers" /\ op.field = "Name"
    /\ op.key \in Keys(db.providers)
    /\ db.providers[op.key].Name = "Zed"
    /\ \E r \in Keys(db.providers) : r # op.key /\ db.providers[r].Name = "Alpha"

\* an Update of a primary key that no row has was run on a table with rows
C8_WitnessNoRow ==
    /\ op.name = "update" /\ op.key \notin Keys(db[op.entity])
    /\ Keys(db[op.entity]) # {}

\* C9: a Create with a primary key the entity already has adds and modifies no row
\* of any table, and run_execute returns None.
C9_DuplicateCreateRejected ==
    [][(op'.name = "create" /\ op'.key \in Keys(db[op'.entity]))
        => (db' = db /\ ret' = None)]_vars

\* a Create of an existing provider key has returned None and the provider still
\* has the Name it had
C9_Witness ==
    /\ op.name = "create" /\ op.entity = "providers"
    /\ ret = None
    /\ op.key \in Keys(db.providers)
    /\ db.providers[op.key].Name = "Alpha"

\* C12: Delete(entity, key) removes exactly the row of that entity with that
\* primary key (none when no row has it) and leaves the other rows of the entity
\* and the three other tables as they were; the claims on a deleted listing and
\* the listings of a deleted provider stay.
C12_DeleteFrame ==
    [][op'.name = "delete" =>
        LET e == op'.entity
            k == op'.key
        IN  /\ db'[e] = Restrict(db[e], Keys(db[e]) \ {k})
            /\ \A t \in TableSet \ {e} : db'[t] = db[t]
            /\ k \notin Keys(db[e]) => db' = db
            /\ e = "food_listings" =>
                    {c \in Keys(db'.claims) : db'.claims[c].Food_ID = k}
                        = {c \in Keys(db.claims) : db.claims[c].Food_ID = k}
            /\ e = "providers" =>
                    {f \in Keys(db'.food_listings) : db'.food_listings[f].Provider_ID = k}
                        = {f \in Keys(db.food_listings) : db.food_listings[f].Provider_ID = k}]_vars

\* the one listing of the store has been deleted and the claims on it are still
\* in the store
C12_Witness ==
    /\ op.name = "delete" /\ op.entity = "food_listings" /\ nops = 1
    /\ Keys(db.food_listings) = {}
    /\ \E c \in Keys(db.claims) : db.claims[c].Food_ID = op.key
    /\ Keys(db.providers) # {} /\ Keys(db.receivers) # {}

\* a provider has been deleted, the other provider and the listing of the deleted
\* one are still in the store
C12_WitnessProvider ==
    /\ op.name = "delete" /\ op.entity = "providers" /\ nops = 1
    /\ op.key \notin Keys(db.providers) /\ Keys(db.providers) # {}
    /\ \E f \in Keys(db.food_listings) : db.food_listings[f].Provider_ID = op.key

\* a Delete of a primary key that no row has was run on a table with rows
C12_WitnessNoRow ==
    /\ op.name = "delete" /\ nops = 1
    /\ op.key \notin Keys(SeedDb[op.entity])
    /\ db = SeedDb

====
